---- MODULE Spec2Model ----
(***************************************************************************)
(* Model of modules/utils_io.py (deepsphere-weather): the validation       *)
(* helpers for autoregressive (AR) training data and the dimension         *)
(* bookkeeping routine get_AR_model_diminfo.                               *)
(*                                                                         *)
(* Every Python function is an operator that maps its arguments to an      *)
(* outcome record: a normal return with its value, or the exception it     *)
(* raises (kind and message).  Under Spec a call of a validation function  *)
(* is one action: it draws the arguments, applies the operator and records *)
(* the call in op / args / result.  Under SpecDimInfo the caller holds the *)
(* arguments of get_AR_model_diminfo as objects and calls the function on  *)
(* them more than once.                                                    *)
(***************************************************************************)
EXTENDS Integers, Sequences, FiniteSets, TLC

VARIABLES
    op,          \* name of the function called last ("none" before any call)
    args,        \* the arguments of that call
    result,      \* its outcome: [kind, msg, value]
    dynamic,     \* caller's dynamic DataArray    (get_AR_model_diminfo)
    static,      \* caller's static DataArray or None
    bc,          \* caller's boundary-condition DataArray or None
    settings,    \* caller's AR settings or None
    dim_info,    \* outcome of the last get_AR_model_diminfo call on them
    ncalls,      \* number of get_AR_model_diminfo calls made on them
    other_info   \* outcome of a call made in between on other arguments

vars == <<op, args, result, dynamic, static, bc, settings,
          dim_info, ncalls, other_info>>

objVars == <<dynamic, static, bc, settings, dim_info, ncalls, other_info>>

---------------------------------------------------------------------------
(* Bounds of the model *)

\* largest timestamp (days since the epoch) in a timesteps argument
MaxTime == 2
\* longest list / array / tuple passed as timesteps
MaxLen == 3
\* longest required_dimnames list
MaxReq == 2
\* most cells a Dataset variable holds
MaxCells == 2
\* most features an array of the dimension bookkeeping holds
MaxFeat == 2
\* most nodes of its dynamic array
MaxNodes == 2
\* longest input_k / output_k of its AR settings
MaxK == 2
\* most calls of get_AR_model_diminfo on the same arguments
MaxCalls == 2

---------------------------------------------------------------------------
(* Outcomes *)

\* Python's None
None == [type |-> "NoneType"]

Return(v) == [kind |-> "return", msg |-> "", value |-> v]

Raise(k, m) == [kind |-> k, msg |-> m, value |-> None]

\* an exception whose message is formatted with v
RaiseWith(k, m, v) == [kind |-> k, msg |-> m, value |-> v]

NoCall == [kind |-> "none", msg |-> "", value |-> None]

---------------------------------------------------------------------------
(* Python values that reach the timesteps helpers.  A value is            *)
(* [type, val, elems, str]: val is the instant of a scalar datetime,       *)
(* elems the elements of a list / tuple / ndarray, str the text of a str.  *)

PyStr(s) == [type |-> "str", val |-> 0, elems |-> <<>>, str |-> s]

PyScalar(t, v) == [type |-> t, val |-> v, elems |-> <<>>, str |-> ""]

PyList(es) == [type |-> "list", val |-> 0, elems |-> es, str |-> ""]

PyTuple(es) == [type |-> "tuple", val |-> 0, elems |-> es, str |-> ""]

ndarray(es) == [type |-> "ndarray", val |-> 0, elems |-> es, str |-> ""]

\* isinstance(v, (np.datetime64, datetime.datetime))
IsDatetime(v) == v.type \in {"datetime64", "datetime"}

\* len(v) is defined for str and the containers; a scalar datetime or an int
\* has no len()
HasLen(v) == v.type \in {"str", "list", "tuple", "ndarray"}

\* len(v) of a container
PyLen(v) == Len(v.elems)

\* the date strings of the model and the day np.datetime64 parses each to
DateStrings == {"1970-01-01", "1970-01-02", "1970-01-03"}

IsDateString(s) == s \in DateStrings

datetime64(s) ==
    CASE s = "1970-01-01" -> 0
      [] s = "1970-01-02" -> 1
      [] s = "1970-01-03" -> 2

_check_timesteps(timesteps) ==
    IF timesteps.type = "str"
    THEN IF IsDateString(timesteps.str)
         THEN Return(ndarray(<<PyScalar("datetime64", datetime64(timesteps.str))>>))
         ELSE Raise("ValueError", "Error parsing datetime string")
    ELSE IF timesteps.type = "NoneType"
    THEN Raise("ValueError", "'timesteps' is None.")
    ELSE IF ~HasLen(timesteps)
    THEN Raise("TypeError", "object has no len()")
    ELSE IF PyLen(timesteps) = 0
    THEN Raise("ValueError", "'timesteps' is empty.")
    ELSE IF IsDatetime(timesteps)
    THEN Return(ndarray(<<timesteps>>))
    ELSE IF timesteps.type = "list"
    THEN IF \A i \in 1..Len(timesteps.elems) : IsDatetime(timesteps.elems[i])
         THEN Return(ndarray(timesteps.elems))
         ELSE Raise("ValueError",
                    "The list must contain np.datetime64 or datetime.datetime objects.")
    ELSE IF timesteps.type = "ndarray"
    THEN IF timesteps.elems[1].type = "datetime64"
         THEN Return(timesteps)
         ELSE Raise("ValueError", "The numpy array must contain datetime objects.")
    ELSE Raise("ValueError", "Unvalid timesteps specification.")

\* differences taken from the first element instead of the previous one
np_diff_from_first(a) == [i \in 1..(Len(a) - 1) |-> a[i + 1].val - a[1].val]

\* np.diff: the differences of consecutive elements
np_diff(a) == [i \in 1..(Len(a) - 1) |-> a[i + 1].val - a[i].val]

\* np.unique(dt, return_counts=True): the distinct values and, for each, the
\* number of times it occurs
np_unique(dt) ==
    LET dts == {dt[i] : i \in 1..Len(dt)}
    IN  [dts |-> dts,
         counts |-> [d \in dts |-> Cardinality({i \in 1..Len(dt) : dt[i] = d})]]

check_no_missing_timesteps(timesteps) ==
    LET checked == _check_timesteps(timesteps)
    IN  IF checked.kind # "return" THEN checked
        ELSE IF Len(checked.value.elems) = 0
        THEN Raise("ValueError", "No data available !")
        ELSE LET u == np_unique(np_diff(checked.value.elems))
             IN  IF Cardinality(DOMAIN u.counts) > 1
                 THEN Raise("ValueError", "The process has been interrupted")
                 ELSE Return(None)

---------------------------------------------------------------------------
(* xarray objects.  A DataArray is [type, dims, time, feature, node]: its   *)
(* dimension names in order, the values of its 'time' and 'feature'        *)
(* coordinates and the size of its 'node' dimension.  A Dataset is         *)
(* [type, dims, time, data_vars]: data_vars lists each variable's name     *)
(* with its cells, a cell being finite, NaN or Inf.                        *)

DataArray(dims, time, feature, node) ==
    [type |-> "DataArray", dims |-> dims, time |-> time, feature |-> feature,
     node |-> node]

Dataset(dims, time, data_vars) ==
    [type |-> "Dataset", dims |-> dims, time |-> time, data_vars |-> data_vars]

Range(s) == {s[i] : i \in 1..Len(s)}

\* the selection without invert=True: the names that are dimensions
MissingDimsNotInverted(required_dimnames, dims) ==
    SelectSeq(required_dimnames, LAMBDA n : n \in Range(dims))

\* np.array(l)[np.isin(l, dims, invert=True)]: the names of l that are not in
\* dims, in l's order
MissingDims(required_dimnames, dims) ==
    SelectSeq(required_dimnames, LAMBDA n : n \notin Range(dims))

check_dimnames_DataArray(da, required_dimnames, da_name) ==
    IF da_name.type # "str"
    THEN Raise("TypeError", "'da_name' must be a string.")
    ELSE IF da.type # "DataArray"
    THEN Raise("TypeError", "'da' must be an xarray DataArray")
    ELSE IF required_dimnames.type # "list"
    THEN Raise("TypeError", "'required_dimnames' must be a list")
    ELSE LET missing_dims == MissingDims(required_dimnames.elems, da.dims)
         IN  IF Len(missing_dims) > 0
             THEN RaiseWith("ValueError", "The {} must have also the '{}' dimension",
                            missing_dims)
             ELSE Return(None)

check_dimnames_Dataset(ds, required_dimnames, ds_name) ==
    IF ds_name.type # "str"
    THEN Raise("TypeError", "'ds_name' must be a string.")
    ELSE IF ds.type # "Dataset"
    THEN Raise("TypeError", "'ds' must be an xarray Dataset")
    ELSE IF required_dimnames.type # "list"
    THEN Raise("TypeError", "'required_dimnames' must be a list")
    ELSE LET missing_dims == MissingDims(required_dimnames.elems, ds.dims)
         IN  IF Len(missing_dims) > 0
             THEN RaiseWith("ValueError", "The {} must have also the '{}' dimension",
                            missing_dims)
             ELSE Return(None)

\* ds_is[var].sum(): the number of cells of the variable that are of kind k
CountCells(values, k) == Cardinality({i \in 1..Len(values) : values[i] = k})

\* the loop over data_vars: the names of the variables with a cell of kind k,
\* in the Dataset's order
VarsWith(data_vars, k) ==
    LET hit == SelectSeq(data_vars, LAMBDA v : CountCells(v.values, k) # 0)
    IN  [i \in 1..Len(hit) |-> hit[i].name]

\* the check with its second half, the Inf values, left out
check_finite_Dataset_NaN_only(ds) ==
    IF ds.type # "Dataset"
    THEN Raise("TypeError", "'ds' must be an xarray Dataset.")
    ELSE LET list_vars_with_nan == VarsWith(ds.data_vars, "NaN")
         IN  IF Len(list_vars_with_nan) > 0
             THEN RaiseWith("ValueError", "The variables {} contain NaN values",
                            list_vars_with_nan)
             ELSE Return(None)

check_finite_Dataset(ds) ==
    IF ds.type # "Dataset"
    THEN Raise("TypeError", "'ds' must be an xarray Dataset.")
    ELSE LET list_vars_with_nan == VarsWith(ds.data_vars, "NaN")
             list_vars_with_inf == VarsWith(ds.data_vars, "Inf")
         IN  IF Len(list_vars_with_nan) > 0
             THEN RaiseWith("ValueError", "The variables {} contain NaN values",
                            list_vars_with_nan)
             ELSE IF Len(list_vars_with_inf) > 0
             THEN RaiseWith("ValueError", "The variables {} contain Inf values.",
                            list_vars_with_inf)
             ELSE Return(None)

---------------------------------------------------------------------------
(* get_AR_model_diminfo *)

time_dim == "time"
node_dim == "node"
variable_dim == "feature"

DimNames == {time_dim, node_dim, variable_dim}

\* AR_settings as far as this module reads it: the lags of the input and of
\* the output
ARSettings(input_k, output_k) ==
    [type |-> "dict", input_k |-> input_k, output_k |-> output_k]

\* the optional check of the static array, and what the function reads of it
\* (given: dims_static is not None)
StaticInfo(da_static) ==
    IF da_static.type # "NoneType"
    THEN LET chk == check_dimnames_DataArray(da_static,
                        PyList(<<node_dim, variable_dim>>), PyStr("static DataArray"))
         IN  IF chk.kind # "return" THEN chk
             ELSE Return([given |-> TRUE, dims |-> da_static.dims,
                          variables |-> da_static.feature])
    ELSE Return([given |-> FALSE, dims |-> <<>>, variables |-> <<>>])

\* the bc array checked but its variables not read
BcInfoNoVariables(da_bc) ==
    IF da_bc.type # "NoneType"
    THEN LET chk == check_dimnames_DataArray(da_bc,
                        PyList(<<time_dim, node_dim, variable_dim>>),
                        PyStr("bc DataArray"))
         IN  IF chk.kind # "return" THEN chk
             ELSE Return([given |-> TRUE, dims |-> da_bc.dims, variables |-> <<>>])
    ELSE Return([given |-> FALSE, dims |-> <<>>, variables |-> <<>>])

\* the optional check of the boundary-condition array, and what is read of it
\* (given: dims_bc is not None)
BcInfo(da_bc) ==
    IF da_bc.type # "NoneType"
    THEN LET chk == check_dimnames_DataArray(da_bc,
                        PyList(<<time_dim, node_dim, variable_dim>>),
                        PyStr("bc DataArray"))
         IN  IF chk.kind # "return" THEN chk
             ELSE Return([given |-> TRUE, dims |-> da_bc.dims,
                          variables |-> da_bc.feature])
    ELSE Return([given |-> FALSE, dims |-> <<>>, variables |-> <<>>])

\* tuple([dim[k] for k in dim_order[1:]])
ShapeOf(dim, dim_order) ==
    [i \in 1..(Len(dim_order) - 1) |-> dim[dim_order[i + 1]]]

\* the record built from the three arrays once their checks have passed
DimInfoRecord(da_dynamic, static_variables, bc_variables, AR_settings) ==
    LET dynamic_variables == da_dynamic.feature
        n_dynamic_variables == Len(dynamic_variables)
        n_static_variables == Len(static_variables)
        n_bc_variables == Len(bc_variables)
        input_feature_dim ==
            n_static_variables + n_bc_variables + n_dynamic_variables
        output_feature_dim == n_dynamic_variables
        input_features == static_variables \o bc_variables \o dynamic_variables
        output_features == dynamic_variables
        input_node_dim == da_dynamic.node
        output_node_dim == da_dynamic.node
        dim_order == <<"sample">> \o da_dynamic.dims
    IN  IF AR_settings.type # "NoneType"
        THEN LET input_time_dim == Len(AR_settings.input_k)
                 output_time_dim == Len(AR_settings.output_k)
                 dim_input == [k \in DimNames |->
                                  CASE k = "node" -> input_node_dim
                                    [] k = "time" -> input_time_dim
                                    [] k = "feature" -> input_feature_dim]
                 dim_output == [k \in DimNames |->
                                  CASE k = "node" -> output_node_dim
                                    [] k = "time" -> output_time_dim
                                    [] k = "feature" -> output_feature_dim]
                 input_shape == ShapeOf(dim_input, dim_order)
                 \* the source indexes dim_input here, not dim_output
                 output_shape == ShapeOf(dim_input, dim_order)
             IN  [input_feature_dim |-> input_feature_dim,
                  output_feature_dim |-> output_feature_dim,
                  input_features |-> input_features,
                  output_features |-> output_features,
                  input_time_dim |-> input_time_dim,
                  output_time_dim |-> output_time_dim,
                  input_node_dim |-> input_node_dim,
                  output_node_dim |-> output_node_dim,
                  dim_order |-> dim_order,
                  input_shape |-> input_shape,
                  output_shape |-> output_shape]
        ELSE [input_feature_dim |-> input_feature_dim,
              output_feature_dim |-> output_feature_dim,
              input_features |-> input_features,
              output_features |-> output_features,
              input_node_dim |-> input_node_dim,
              output_node_dim |-> output_node_dim,
              dim_order |-> dim_order]

get_AR_model_diminfo(da_dynamic, da_static, da_bc, AR_settings) ==
    IF da_dynamic.type # "DataArray"
    THEN Raise("ValueError", "The dynamic DataArray is necessary for AR models.")
    ELSE LET dyn == check_dimnames_DataArray(da_dynamic,
                        PyList(<<time_dim, node_dim, variable_dim>>),
                        PyStr("dynamic DataArray"))
             static_info == StaticInfo(da_static)
             bc_info == BcInfo(da_bc)
         IN  IF dyn.kind # "return" THEN dyn
             ELSE IF static_info.kind # "return" THEN static_info
             ELSE IF bc_info.kind # "return" THEN bc_info
             ELSE IF bc_info.value.given /\ da_dynamic.dims # bc_info.value.dims
             THEN Raise("ValueError",
                        "Dimension order of dynamic and bc DataArrays must be equal.")
             ELSE Return(DimInfoRecord(da_dynamic, static_info.value.variables,
                                       bc_info.value.variables, AR_settings))

---------------------------------------------------------------------------
(* check_AR_DataArrays and check_AR_Datasets *)

\* statements in sequence: the first exception ends the function
Then(first, rest) == IF first.kind # "return" THEN first ELSE rest

\* x['time'].values: the time coordinate as a datetime64 array
TimeValues(x) == ndarray([i \in 1..Len(x.time) |-> PyScalar("datetime64", x.time[i])])

\* a == b on two one-dimensional arrays: elementwise, a one-element array
\* being broadcast.  On shapes that do not broadcast, NumPy before 1.25
\* answers the scalar False and later NumPy raises.
np_equal(a, b, numpy_legacy) ==
    IF Len(a) = Len(b)
    THEN Return(ndarray([i \in 1..Len(a) |-> a[i] = b[i]]))
    ELSE IF Len(a) = 1
    THEN Return(ndarray([i \in 1..Len(b) |-> a[1] = b[i]]))
    ELSE IF Len(b) = 1
    THEN Return(ndarray([i \in 1..Len(a) |-> a[i] = b[1]]))
    ELSE IF numpy_legacy
    THEN Return(PyScalar("bool", FALSE))
    ELSE Raise("ValueError", "operands could not be broadcast together")

\* np.all(x)
np_all(x) ==
    IF x.type = "ndarray" THEN \A i \in 1..Len(x.elems) : x.elems[i] ELSE x.val

\* the builtin all(x): it iterates x
py_all(x) ==
    IF x.type = "ndarray"
    THEN Return(\A i \in 1..Len(x.elems) : x.elems[i])
    ELSE Raise("TypeError", "'bool' object is not iterable")

_check_AR_DataArray_dimnames(da_dynamic, da_bc, da_static) ==
    Then(IF da_dynamic.type # "NoneType"
         THEN check_dimnames_DataArray(da_dynamic,
                  PyList(<<time_dim, node_dim, variable_dim>>),
                  PyStr("dynamic DataArray"))
         ELSE Return(None),
    Then(IF da_static.type # "NoneType"
         THEN check_dimnames_DataArray(da_static,
                  PyList(<<node_dim, variable_dim>>), PyStr("static DataArray"))
         ELSE Return(None),
         IF da_bc.type # "NoneType"
         THEN check_dimnames_DataArray(da_bc,
                  PyList(<<time_dim, node_dim, variable_dim>>), PyStr("bc DataArray"))
         ELSE Return(None)))

\* lines 207-215: the time alignment of a dynamic array and its bc array
AlignedDataArrays(da_dynamic, da_bc, numpy_legacy, msg) ==
    LET eq == np_equal(da_dynamic.time, da_bc.time, numpy_legacy)
    IN  IF eq.kind # "return" THEN eq
        ELSE IF ~np_all(eq.value) THEN Raise("ValueError", msg)
        ELSE Return(None)

\* lines 217-226: the two records are compared as a whole
SameDimInfo(da_training_dynamic, da_validation_dynamic, da_training_bc, da_validation_bc, da_static) ==
    LET dim_info_training ==
            get_AR_model_diminfo(da_training_dynamic, da_static, da_training_bc, None)
        dim_info_validation ==
            get_AR_model_diminfo(da_validation_dynamic, da_static, da_validation_bc, None)
    IN  Then(dim_info_training,
        Then(dim_info_validation,
             IF ~(dim_info_training.value = dim_info_validation.value)
             THEN Raise("ValueError",
                        "The dimension order of training and validation DataArrays do not coincide!")
             ELSE Return(None)))

\* the rule without its outer test of the validation dynamic array
RequiredDataArraysAlways(da_validation_dynamic, da_training_bc, da_validation_bc) ==
    IF /\ da_training_bc.type # "NoneType"
       /\ da_validation_bc.type = "NoneType"
    THEN Raise("ValueError",
               "If boundary conditions data are provided for the training, must be provided also for validation!")
    ELSE Return(None)

\* lines 189-192
RequiredDataArrays(da_validation_dynamic, da_training_bc, da_validation_bc) ==
    IF /\ da_validation_dynamic.type # "NoneType"
       /\ da_training_bc.type # "NoneType"
       /\ da_validation_bc.type = "NoneType"
    THEN Raise("ValueError",
               "If boundary conditions data are provided for the training, must be provided also for validation!")
    ELSE Return(None)

check_AR_DataArrays(da_training_dynamic, da_validation_dynamic, da_training_bc, da_validation_bc, da_static, numpy_legacy) ==
    IF da_training_dynamic.type # "DataArray"
    THEN Raise("ValueError", "The dynamic DataArray is necessary for AR models.")
    ELSE IF da_validation_bc.type # "NoneType" /\ da_validation_dynamic.type # "DataArray"
    THEN Raise("ValueError", "The validation dynamic DataArray is necessary for AR models.")
    ELSE
    Then(_check_AR_DataArray_dimnames(da_training_dynamic, da_training_bc, da_static),
    Then(_check_AR_DataArray_dimnames(da_validation_dynamic, da_validation_bc, da_static),
    Then(RequiredDataArrays(da_validation_dynamic, da_training_bc, da_validation_bc),
    Then(check_no_missing_timesteps(TimeValues(da_training_dynamic)),
    Then(IF da_validation_dynamic.type # "NoneType"
         THEN check_no_missing_timesteps(TimeValues(da_validation_dynamic))
         ELSE Return(None),
    Then(IF da_training_bc.type # "NoneType"
         THEN check_no_missing_timesteps(TimeValues(da_training_bc))
         ELSE Return(None),
    Then(IF da_validation_bc.type # "NoneType"
         THEN check_no_missing_timesteps(TimeValues(da_validation_bc))
         ELSE Return(None),
    Then(IF da_training_bc.type # "NoneType"
         THEN AlignedDataArrays(da_training_dynamic, da_training_bc, numpy_legacy,
                  "The training dynamic DataArray and the training boundary conditions DataArray does not have the same timesteps!")
         ELSE Return(None),
    Then(IF da_validation_dynamic.type # "NoneType" /\ da_validation_bc.type # "NoneType"
         THEN AlignedDataArrays(da_validation_dynamic, da_validation_bc, numpy_legacy,
                  "The validation dynamic DataArray and the validation boundary conditions DataArray does not have the same timesteps!")
         ELSE Return(None),
         IF da_validation_dynamic.type # "NoneType"
         THEN SameDimInfo(da_training_dynamic, da_validation_dynamic, da_training_bc,
                          da_validation_bc, da_static)
         ELSE Return(None))))))))))

_check_AR_Dataset_dimnames(ds_dynamic, ds_bc, ds_static) ==
    Then(IF ds_dynamic.type # "NoneType"
         THEN check_dimnames_Dataset(ds_dynamic, PyList(<<time_dim, node_dim>>),
                                     PyStr("dynamic Dataset"))
         ELSE Return(None),
    Then(IF ds_static.type # "NoneType"
         THEN check_dimnames_Dataset(ds_static, PyList(<<node_dim>>),
                                     PyStr("static Dataset"))
         ELSE Return(None),
         IF ds_bc.type # "NoneType"
         THEN check_dimnames_Dataset(ds_bc, PyList(<<time_dim, node_dim>>),
                                     PyStr("bc Dataset"))
         ELSE Return(None)))

\* lines 290-298: the time alignment of a dynamic Dataset and its bc Dataset
AlignedDatasets(ds_dynamic, ds_bc, numpy_legacy, msg) ==
    LET same_timesteps == np_equal(ds_dynamic.time, ds_bc.time, numpy_legacy)
    IN  IF same_timesteps.kind # "return" THEN same_timesteps
        ELSE LET every == py_all(same_timesteps.value)
             IN  IF every.kind # "return" THEN every
                 ELSE IF ~every.value THEN Raise("ValueError", msg)
                 ELSE Return(None)

\* ds['time'] on the training Dataset, which no check has looked at when it
\* is None
TrainingTimeValues(ds_training_dynamic) ==
    IF ds_training_dynamic.type = "NoneType"
    THEN Raise("TypeError", "'NoneType' object is not subscriptable")
    ELSE check_no_missing_timesteps(TimeValues(ds_training_dynamic))

check_AR_Datasets(ds_training_dynamic, ds_validation_dynamic, ds_static, ds_training_bc, ds_validation_bc, numpy_legacy) ==
    Then(_check_AR_Dataset_dimnames(ds_training_dynamic, ds_training_bc, ds_static),
    Then(_check_AR_Dataset_dimnames(ds_validation_dynamic, ds_validation_bc, ds_static),
    Then(IF /\ ds_validation_dynamic.type # "NoneType"
            /\ ds_training_bc.type # "NoneType"
            /\ ds_validation_bc.type = "NoneType"
         THEN Raise("ValueError",
                    "If boundary conditions data are provided for the training, must be provided also for validation!")
         ELSE Return(None),
    Then(TrainingTimeValues(ds_training_dynamic),
    Then(IF ds_validation_dynamic.type # "NoneType"
         THEN check_no_missing_timesteps(TimeValues(ds_validation_dynamic))
         ELSE Return(None),
    Then(IF ds_training_bc.type # "NoneType"
         THEN check_no_missing_timesteps(TimeValues(ds_training_bc))
         ELSE Return(None),
    Then(IF ds_validation_bc.type # "NoneType"
         THEN check_no_missing_timesteps(TimeValues(ds_validation_bc))
         ELSE Return(None),
    Then(IF ds_training_bc.type # "NoneType"
         THEN AlignedDatasets(ds_training_dynamic, ds_training_bc, numpy_legacy,
                  "The training dynamic Dataset and the training boundary conditions Dataset does not have the same timesteps!")
         ELSE Return(None),
         IF ds_validation_dynamic.type # "NoneType" /\ ds_validation_bc.type # "NoneType"
         THEN AlignedDatasets(ds_validation_dynamic, ds_validation_bc, numpy_legacy,
                  "The validation dynamic Dataset and the validation boundary conditions Dataset does not have the same timesteps!")
         ELSE Return(None)))))))))

---------------------------------------------------------------------------
(* Inputs of the timesteps helpers *)

RECURSIVE SeqsUpTo(_, _)
\* the sequences over S of length 0..n
SeqsUpTo(S, n) ==
    IF n = 0 THEN {<<>>}
    ELSE LET shorter == SeqsUpTo(S, n - 1)
         IN  shorter \cup {Append(s, x) : s \in {t \in shorter : Len(t) = n - 1}, x \in S}

Times == 0..MaxTime

\* elements a list can hold: datetimes of both classes, and a non-datetime
ListElems ==
    {PyScalar("datetime64", t) : t \in Times}
        \cup {PyScalar("datetime", t) : t \in Times}
        \cup {PyScalar("int", 0)}

\* arrays are homogeneous: datetime64 or float64
ArrayElemSeqs ==
    SeqsUpTo({PyScalar("datetime64", t) : t \in Times}, MaxLen)
        \cup SeqsUpTo({PyScalar("float64", 0)}, MaxLen)

TimestepsInputs ==
    {None, PyStr("abc"), PyScalar("int", 0)}
        \cup {PyStr(s) : s \in DateStrings}
        \cup {PyScalar("datetime64", t) : t \in Times}
        \cup {PyScalar("datetime", t) : t \in Times}
        \cup {PyList(es) : es \in SeqsUpTo(ListElems, MaxLen)}
        \cup {PyTuple(es) : es \in SeqsUpTo({PyScalar("datetime64", t) : t \in Times}, 1)}
        \cup {ndarray(es) : es \in ArrayElemSeqs}

---------------------------------------------------------------------------
(* Inputs of the dimension-name and finiteness checks *)

\* every order of every subset of the dimension names
DimOrders == {d \in SeqsUpTo(DimNames, Cardinality(DimNames)) :
                 \A i, j \in 1..Len(d) : i # j => d[i] # d[j]}

\* what a caller may pass as the data object: arrays and datasets of every
\* dimension order, and None
DimCheckObjects ==
    {DataArray(d, <<>>, <<>>, 0) : d \in DimOrders}
        \cup {Dataset(d, <<>>, <<>>) : d \in DimOrders}
        \cup {None}

RequiredDimnames ==
    {PyList(l) : l \in SeqsUpTo(DimNames, MaxReq)}
        \cup {PyTuple(l) : l \in SeqsUpTo(DimNames, 1)}

ObjectNames == {PyStr("dynamic"), PyScalar("int", 0)}

CellKinds == {"finite", "NaN", "Inf"}

VarNames == {"z500", "t850"}

DataVars ==
    LET V == {[name |-> n, values |-> c] : n \in VarNames,
                                           c \in SeqsUpTo(CellKinds, MaxCells)}
    IN  {dv \in SeqsUpTo(V, Cardinality(VarNames)) :
            \A i, j \in 1..Len(dv) : i # j => dv[i].name # dv[j].name}

FiniteCheckObjects ==
    {Dataset(<<"time", "node">>, <<>>, dv) : dv \in DataVars}
        \cup {DataArray(<<"time", "node", "feature">>, <<>>, <<>>, 0), None}

---------------------------------------------------------------------------
(* Inputs of get_AR_model_diminfo *)

FeatureNames == <<"z500", "t850", "q700", "tisr", "lsm", "orog">>

\* runs of up to MaxFeat feature names that start after one of the offsets
FeatureLists(offsets) ==
    {SubSeq(FeatureNames, r[1] + 1, r[1] + r[2]) :
        r \in {q \in offsets \X (1..MaxFeat) : q[1] + q[2] <= Len(FeatureNames)}}

Permutations3 == {d \in DimOrders : Len(d) = 3}

DynamicArrays ==
    {DataArray(d, <<0>>, f, n) :
        d \in Permutations3, f \in FeatureLists({0}), n \in 1..MaxNodes}
        \cup {DataArray(<<"time", "node">>, <<0>>, <<>>, 1), None}

StaticArrays ==
    {DataArray(<<"node", "feature">>, <<>>, f, 1) : f \in FeatureLists({3, 4})}
        \cup {DataArray(<<"node">>, <<>>, <<>>, 1), None}

BcArrays ==
    {DataArray(d, <<0>>, f, 1) :
        d \in {<<"time", "node", "feature">>, <<"node", "time", "feature">>},
        f \in FeatureLists({1, 3})}
        \cup {DataArray(<<"time", "node">>, <<0>>, <<>>, 1), None}

\* the lags -n..-1 of the input and 0..m-1 of the output
Settings ==
    {ARSettings([i \in 1..n |-> i - n - 1], [i \in 1..m |-> i - 1]) :
        n \in 1..MaxK, m \in 1..MaxK}
        \cup {None}

\* the arguments of a call made in between
OtherDynamicArrays ==
    {DataArray(<<"node", "time", "feature">>, <<0>>, <<"q700">>, 1), None}

---------------------------------------------------------------------------
(* Inputs of check_AR_DataArrays and check_AR_Datasets: an array and its    *)
(* variants that differ from it in one respect                             *)

ARTimeAxes == {<<0>>, <<0, 0>>, <<1, 2>>, <<0, 1, 2>>, <<0, 1, 3>>}

ARBase == DataArray(<<"time", "node", "feature">>, <<0, 1>>, <<"z500">>, 1)

ARArrays ==
    {ARBase}
        \cup {[ARBase EXCEPT !.time = t] : t \in ARTimeAxes}
        \cup {[ARBase EXCEPT !.dims = d] :
                 d \in {<<"node", "time", "feature">>, <<"time", "node">>}}
        \cup {[ARBase EXCEPT !.feature = <<"z500", "t850">>]}

ARStatics ==
    {None, DataArray(<<"node", "feature">>, <<>>, <<"lsm">>, 1),
     Dataset(<<"node">>, <<>>, <<>>)}

DSBase == Dataset(<<"time", "node">>, <<0, 1>>, <<>>)

ARDatasets ==
    {DSBase}
        \cup {[DSBase EXCEPT !.time = t] : t \in ARTimeAxes}
        \cup {[DSBase EXCEPT !.dims = <<"time">>]}

DSStatics == {None, Dataset(<<"node">>, <<>>, <<>>)}

---------------------------------------------------------------------------
(* Calls *)

\* the caller is between two calls
Idle == op = "none"

Call__check_timesteps ==
    /\ Idle
    /\ \E timesteps \in TimestepsInputs :
          /\ op' = "_check_timesteps"
          /\ args' = [timesteps |-> timesteps]
          /\ result' = _check_timesteps(timesteps)
    /\ UNCHANGED objVars

Call_check_no_missing_timesteps ==
    /\ Idle
    /\ \E timesteps \in TimestepsInputs :
          /\ op' = "check_no_missing_timesteps"
          /\ args' = [timesteps |-> timesteps]
          /\ result' = check_no_missing_timesteps(timesteps)
    /\ UNCHANGED objVars

Call_check_finite_Dataset ==
    /\ Idle
    /\ \E ds \in FiniteCheckObjects :
          /\ op' = "check_finite_Dataset"
          /\ args' = [ds |-> ds]
          /\ result' = check_finite_Dataset(ds)
    /\ UNCHANGED objVars

Call_check_dimnames_DataArray ==
    /\ Idle
    /\ \E da \in DimCheckObjects, required_dimnames \in RequiredDimnames,
          da_name \in ObjectNames :
          /\ op' = "check_dimnames_DataArray"
          /\ args' = [data |-> da, required_dimnames |-> required_dimnames,
                      name |-> da_name]
          /\ result' = check_dimnames_DataArray(da, required_dimnames, da_name)
    /\ UNCHANGED objVars

Call_check_dimnames_Dataset ==
    /\ Idle
    /\ \E ds \in DimCheckObjects, required_dimnames \in RequiredDimnames,
          ds_name \in ObjectNames :
          /\ op' = "check_dimnames_Dataset"
          /\ args' = [data |-> ds, required_dimnames |-> required_dimnames,
                      name |-> ds_name]
          /\ result' = check_dimnames_Dataset(ds, required_dimnames, ds_name)
    /\ UNCHANGED objVars

Call_check_AR_DataArrays ==
    /\ Idle
    /\ \E da_training_dynamic \in ARArrays \cup {None},
          da_validation_dynamic \in ARArrays \cup {None, DSBase},
          da_training_bc \in ARArrays \cup {None},
          da_validation_bc \in ARArrays \cup {None},
          da_static \in ARStatics,
          numpy_legacy \in BOOLEAN :
          /\ op' = "check_AR_DataArrays"
          /\ args' = [training_dynamic |-> da_training_dynamic,
                      validation_dynamic |-> da_validation_dynamic,
                      training_bc |-> da_training_bc,
                      validation_bc |-> da_validation_bc,
                      static |-> da_static,
                      numpy_legacy |-> numpy_legacy]
          /\ result' = check_AR_DataArrays(da_training_dynamic, da_validation_dynamic,
                           da_training_bc, da_validation_bc, da_static, numpy_legacy)
    /\ UNCHANGED objVars

Call_check_AR_Datasets ==
    /\ Idle
    /\ \E ds_training_dynamic \in ARDatasets \cup {None},
          ds_validation_dynamic \in ARDatasets \cup {None},
          ds_training_bc \in ARDatasets \cup {None},
          ds_validation_bc \in ARDatasets \cup {None},
          ds_static \in DSStatics,
          numpy_legacy \in BOOLEAN :
          /\ op' = "check_AR_Datasets"
          /\ args' = [training_dynamic |-> ds_training_dynamic,
                      validation_dynamic |-> ds_validation_dynamic,
                      training_bc |-> ds_training_bc,
                      validation_bc |-> ds_validation_bc,
                      static |-> ds_static,
                      numpy_legacy |-> numpy_legacy]
          /\ result' = check_AR_Datasets(ds_training_dynamic, ds_validation_dynamic,
                           ds_static, ds_training_bc, ds_validation_bc, numpy_legacy)
    /\ UNCHANGED objVars

\* the caller builds the arrays and settings it will pass
Build ==
    /\ Idle
    /\ op' = "build"
    /\ dynamic' \in DynamicArrays
    /\ static' \in StaticArrays
    /\ bc' \in BcArrays
    /\ settings' \in Settings
    /\ UNCHANGED <<args, result, dim_info, ncalls, other_info>>

\* a call that also rebinds the caller's bc array
Call_get_AR_model_diminfo_drops_bc ==
    /\ op \in {"build", "get_AR_model_diminfo"}
    /\ ncalls < MaxCalls
    /\ op' = "get_AR_model_diminfo"
    /\ dim_info' = get_AR_model_diminfo(dynamic, static, bc, settings)
    /\ ncalls' = ncalls + 1
    /\ bc' = None
    /\ UNCHANGED <<args, result, dynamic, static, settings, other_info>>

\* get_AR_model_diminfo on the caller's objects: it assigns to none of its
\* arguments and to nothing outside itself
Call_get_AR_model_diminfo ==
    /\ op \in {"build", "get_AR_model_diminfo"}
    /\ ncalls < MaxCalls
    /\ op' = "get_AR_model_diminfo"
    /\ dim_info' = get_AR_model_diminfo(dynamic, static, bc, settings)
    /\ ncalls' = ncalls + 1
    /\ UNCHANGED <<args, result, dynamic, static, bc, settings, other_info>>

\* a call of get_AR_model_diminfo on other arguments, made in between
Call_get_AR_model_diminfo_between ==
    /\ op \in {"build", "get_AR_model_diminfo"}
    /\ other_info.kind = "none"
    /\ \E da_dynamic \in OtherDynamicArrays :
          other_info' = get_AR_model_diminfo(da_dynamic, None, None, None)
    /\ UNCHANGED <<op, args, result, dynamic, static, bc, settings, dim_info, ncalls>>

Init ==
    /\ op = "none"
    /\ args = [timesteps |-> None]
    /\ result = NoCall
    /\ dynamic = None
    /\ static = None
    /\ bc = None
    /\ settings = None
    /\ dim_info = NoCall
    /\ ncalls = 0
    /\ other_info = NoCall

\* the caller has looked at the outcome and goes on to its next call
Finish ==
    /\ ~Idle
    /\ op' = "none"
    /\ args' = [timesteps |-> None]
    /\ result' = NoCall
    /\ dynamic' = None
    /\ static' = None
    /\ bc' = None
    /\ settings' = None
    /\ dim_info' = NoCall
    /\ ncalls' = 0
    /\ other_info' = NoCall

Next ==
    \/ Finish
    \/ Call__check_timesteps
    \/ Call_check_no_missing_timesteps
    \/ Call_check_finite_Dataset
    \/ Call_check_dimnames_DataArray
    \/ Call_check_dimnames_Dataset
    \/ Call_check_AR_DataArrays
    \/ Call_check_AR_Datasets

\* the validation functions, each called on arguments of the caller's choice
Spec == Init /\ [][Next]_vars

NextDimInfo ==
    \/ Finish
    \/ Build
    \/ Call_get_AR_model_diminfo
    \/ Call_get_AR_model_diminfo_between

\* get_AR_model_diminfo called, repeatedly, on objects the caller holds
SpecDimInfo == Init /\ [][NextDimInfo]_vars

---------------------------------------------------------------------------
(* Properties of the timesteps helpers *)

\* a non-empty list of datetimes or a non-empty datetime64 array
IsDatetimeSequence(t) ==
    /\ t.type \in {"list", "ndarray"}
    /\ Len(t.elems) > 0
    /\ \A i \in 1..Len(t.elems) :
          IF t.type = "list" THEN IsDatetime(t.elems[i])
          ELSE t.elems[i].type = "datetime64"

\* all consecutive differences are equal
EquallySpaced(es) ==
    \A i, j \in 1..(Len(es) - 1) :
        es[i + 1].val - es[i].val = es[j + 1].val - es[j].val

\* C2: check_no_missing_timesteps, given a non-empty sequence of datetimes,
\* raises ValueError exactly when the differences between consecutive
\* timesteps are not all equal, and returns normally otherwise (a single
\* timestep included).
C2_RaisesIffGap ==
    (op = "check_no_missing_timesteps" /\ IsDatetimeSequence(args.timesteps)) =>
        /\ result.kind = "ValueError" <=> ~EquallySpaced(args.timesteps.elems)
        /\ EquallySpaced(args.timesteps.elems) => result.kind = "return"

C2_Witness ==
    /\ op = "check_no_missing_timesteps"
    /\ IsDatetimeSequence(args.timesteps)
    /\ Len(args.timesteps.elems) = 3
    /\ ~EquallySpaced(args.timesteps.elems)
    /\ result.kind = "ValueError"

\* C10: _check_timesteps returns a one-element array for a date string and
\* for a single datetime value, an array of the same elements for a non-empty
\* list of datetimes, a non-empty datetime64 array unchanged, and raises
\* ValueError for None, an empty sequence, a list with a non-datetime
\* element, a non-datetime array and any other type.
C10_AcceptedFormsReturnArray ==
    op = "_check_timesteps" =>
        LET t == args.timesteps
        IN  /\ (t.type = "str" /\ IsDateString(t.str)) =>
                  /\ result.kind = "return"
                  /\ result.value.type = "ndarray"
                  /\ Len(result.value.elems) = 1
            /\ IsDatetime(t) =>
                  /\ result.kind = "return"
                  /\ result.value.type = "ndarray"
                  /\ result.value.elems = <<t>>
            /\ (t.type = "list" /\ IsDatetimeSequence(t)) =>
                  /\ result.kind = "return"
                  /\ result.value.type = "ndarray"
                  /\ result.value.elems = t.elems
            /\ (t.type = "ndarray" /\ IsDatetimeSequence(t)) =>
                  /\ result.kind = "return"
                  /\ result.value = t
            /\ (t.type # "str" /\ ~IsDatetime(t) /\ ~IsDatetimeSequence(t)) =>
                  result.kind = "ValueError"

---------------------------------------------------------------------------
(* Properties of the dimension-name and finiteness checks *)

\* C4: with arguments of the right types the dimension-name checks raise
\* ValueError exactly when a required name is not a dimension of the object,
\* and the error reports exactly the absent required names; a name that is
\* not a string, a data object of the wrong type or a required_dimnames that
\* is not a list raises TypeError.
C4_MissingDimsReported ==
    op \in {"check_dimnames_DataArray", "check_dimnames_Dataset"} =>
        LET wanted == IF op = "check_dimnames_DataArray" THEN "DataArray"
                      ELSE "Dataset"
            typed == /\ args.name.type = "str"
                     /\ args.data.type = wanted
                     /\ args.required_dimnames.type = "list"
        IN  IF typed
            THEN LET absent == {n \in Range(args.required_dimnames.elems) :
                                   \A i \in 1..Len(args.data.dims) :
                                       args.data.dims[i] # n}
                 IN  /\ result.kind = "ValueError" <=> absent # {}
                     /\ absent = {} => result.kind = "return"
                     /\ absent # {} => Range(result.value) = absent
            ELSE result.kind = "TypeError"

C4_Witness ==
    /\ op = "check_dimnames_DataArray"
    /\ args.name.type = "str"
    /\ args.data.type = "DataArray"
    /\ args.required_dimnames = PyList(<<"time", "feature">>)
    /\ args.data.dims = <<"node", "time">>
    /\ result.kind = "ValueError"
    /\ result.value = <<"feature">>

\* the names of the Dataset's variables that hold a cell of kind k
VarsHolding(ds, k) ==
    {ds.data_vars[i].name : i \in {j \in 1..Len(ds.data_vars) :
        \E c \in 1..Len(ds.data_vars[j].values) : ds.data_vars[j].values[c] = k}}

\* C5: check_finite_Dataset raises ValueError exactly when some variable of
\* the Dataset holds a NaN or an Inf; with a NaN anywhere the error names
\* exactly the variables holding NaN, otherwise exactly those holding Inf; an
\* argument that is not a Dataset raises TypeError.
C5_NonFiniteReported ==
    op = "check_finite_Dataset" =>
        IF args.ds.type = "Dataset"
        THEN LET nan == VarsHolding(args.ds, "NaN")
                 inf == VarsHolding(args.ds, "Inf")
             IN  /\ result.kind = "ValueError" <=> (nan # {} \/ inf # {})
                 /\ (nan = {} /\ inf = {}) => result.kind = "return"
                 /\ nan # {} =>
                       /\ result.msg = "The variables {} contain NaN values"
                       /\ Range(result.value) = nan
                 /\ (nan = {} /\ inf # {}) =>
                       /\ result.msg = "The variables {} contain Inf values."
                       /\ Range(result.value) = inf
        ELSE result.kind = "TypeError"

C5_Witness ==
    /\ op = "check_finite_Dataset"
    /\ args.ds.type = "Dataset"
    /\ VarsHolding(args.ds, "NaN") = {}
    /\ VarsHolding(args.ds, "Inf") = {"t850"}
    /\ Len(args.ds.data_vars) = 2
    /\ result.kind = "ValueError"
    /\ result.value = <<"t850">>

---------------------------------------------------------------------------
(* Properties of get_AR_model_diminfo *)

\* the feature list an optional array contributes
FeaturesOf(da) == IF da.type = "NoneType" THEN <<>> ELSE da.feature

Returned == op = "get_AR_model_diminfo" /\ dim_info.kind = "return"

InputSize(r, k) ==
    CASE k = "node" -> r.input_node_dim
      [] k = "time" -> r.input_time_dim
      [] k = "feature" -> r.input_feature_dim

OutputSize(r, k) ==
    CASE k = "node" -> r.output_node_dim
      [] k = "time" -> r.output_time_dim
      [] k = "feature" -> r.output_feature_dim

TimeKeys == {"input_time_dim", "output_time_dim", "input_shape", "output_shape"}

\* C7: with AR_settings the record has input_time_dim = len(input_k) and
\* output_time_dim = len(output_k), input_shape is the input sizes and
\* output_shape the output sizes, each in the dynamic array's dimension order;
\* without AR_settings the record has none of these four keys.
C7_ShapesInDimOrder ==
    Returned =>
        LET r == dim_info.value
        IN  IF settings.type # "NoneType"
            THEN /\ r.input_time_dim = Len(settings.input_k)
                 /\ r.output_time_dim = Len(settings.output_k)
                 /\ r.input_shape =
                        [i \in 1..Len(dynamic.dims) |-> InputSize(r, dynamic.dims[i])]
                 /\ r.output_shape =
                        [i \in 1..Len(dynamic.dims) |-> OutputSize(r, dynamic.dims[i])]
            ELSE DOMAIN r \cap TimeKeys = {}

---------------------------------------------------------------------------
(* Properties of check_AR_DataArrays and check_AR_Datasets *)

IsGiven(x) == x.type # "NoneType"

\* the type of object the function called takes
Wanted == IF op = "check_AR_DataArrays" THEN "DataArray" ELSE "Dataset"

\* a dynamic object and a bc object are both supplied and their time axes
\* differ, in length or in some value
Misaligned(dyn, b) ==
    /\ dyn.type = Wanted
    /\ b.type = Wanted
    /\ dyn.time # b.time

\* every argument is absent or of the type the function takes
WellTyped ==
    \A x \in {args.training_dynamic, args.validation_dynamic, args.training_bc,
              args.validation_bc, args.static} : x.type \in {"NoneType", Wanted}

\* C3: check_AR_DataArrays and check_AR_Datasets return normally only if each
\* supplied bc object has exactly the time axis of its dynamic object, for the
\* training pair and for the validation pair; a pair whose time axes differ
\* makes the call raise ValueError.
C3_ReturnsOnlyIfAligned ==
    op \in {"check_AR_DataArrays", "check_AR_Datasets"} =>
        LET differ ==
                \/ Misaligned(args.training_dynamic, args.training_bc)
                \/ Misaligned(args.validation_dynamic, args.validation_bc)
        IN  /\ result.kind = "return" => ~differ
            /\ (differ /\ WellTyped) => result.kind = "ValueError"

DimOrderMessage ==
    "The dimension order of training and validation DataArrays do not coincide!"

\* the call got as far as comparing the training and the validation arrays
ReachedDimInfoCheck ==
    \/ result.kind = "return"
    \/ result.msg = DimOrderMessage
    \/ result.msg = "Dimension order of dynamic and bc DataArrays must be equal."

\* C8: with a validation dynamic array and all earlier checks passed,
\* check_AR_DataArrays raises the "dimension order ... do not coincide"
\* ValueError exactly when the dimension orders of the training and the
\* validation dynamic arrays differ, and accepts arrays of the same order.
C8_RaisesIffDimOrderDiffers ==
    (/\ op = "check_AR_DataArrays"
     /\ args.validation_dynamic.type = "DataArray"
     /\ ReachedDimInfoCheck) =>
        LET differ == args.training_dynamic.dims # args.validation_dynamic.dims
        IN  /\ (result.kind = "ValueError" /\ result.msg = DimOrderMessage) <=> differ
            /\ ~differ => result.kind = "return"

BcRequiredMessage ==
    "If boundary conditions data are provided for the training, must be provided also for validation!"

\* C9: check_AR_DataArrays raises ValueError when the training dynamic
\* argument is not a DataArray, when a validation bc array comes without a
\* validation dynamic DataArray, and when a validation dynamic array and a
\* training bc array come without a validation bc array (the static argument
\* being absent or a DataArray); without a validation dynamic array a training
\* bc array needs no validation bc array.
C9_PresenceRules ==
    op = "check_AR_DataArrays" =>
        /\ args.training_dynamic.type # "DataArray" => result.kind = "ValueError"
        /\ (/\ IsGiven(args.validation_bc)
            /\ args.validation_dynamic.type # "DataArray") => result.kind = "ValueError"
        /\ (/\ args.validation_dynamic.type = "DataArray"
            /\ args.training_bc.type = "DataArray"
            /\ ~IsGiven(args.validation_bc)
            /\ args.static.type \in {"NoneType", "DataArray"}) =>
               result.kind = "ValueError"
        /\ (/\ ~IsGiven(args.validation_dynamic)
            /\ args.training_bc.type = "DataArray"
            /\ ~IsGiven(args.validation_bc)) => result.msg # BcRequiredMessage

C9_Witness ==
    /\ op = "check_AR_DataArrays"
    /\ args.training_dynamic = ARBase
    /\ args.validation_dynamic = ARBase
    /\ args.training_bc = ARBase
    /\ ~IsGiven(args.validation_bc)
    /\ ~IsGiven(args.static)
    /\ result.kind = "ValueError"
    /\ result.msg = BcRequiredMessage

====
